---------------------------- MODULE Spec2Model ----------------------------
(***************************************************************************)
(* Model of djbrown79/Voyager's startup: the VarInt codec, the handshake   *)
(* builder, the status-exchange verifier, the port scanner and the main    *)
(* program of src/__main__.py, and the menu of src/selector.py.            *)
(*                                                                         *)
(* Bytes are integers 0..255, byte strings are sequences of bytes and text *)
(* is a sequence of code points.  Python's unbounded integers are kept as  *)
(* two digits in base 2^30 (value = hi * 2^30 + lo), which holds every     *)
(* value the code can build (below 2^42, or negative) in TLC's integers.   *)
(***************************************************************************)
EXTENDS Integers, Sequences, FiniteSets, TLC

VARIABLES
    \* ---- find_minecraft_java_port
    table,        \* psutil.net_connections(kind='inet'): the snapshot iterated
    idx,          \* position of the for loop in table (1-based)
    spc,          \* where the scanner is: "loop", "verifying", "returned",
                  \* "raised"
    mc_port,      \* what find_minecraft_java_port returned: <<>> is None
    lookups,      \* number of psutil.Process(conn.pid) calls made so far
    skipped,      \* places in table whose process lookup raised and was caught
    probes,       \* the verify_minecraft_server calls made so far: the
                  \* arguments, the socket's place in table, the result
    \* ---- verify_minecraft_server
    vpc,          \* where the verifier is
    v_args,       \* its arguments [ip_addr, port_number]
    v_ret,        \* its result: "pending", "True", "False", or "raised"
    exc,          \* the exception raised in its try block ("none" when none)
    json_length,  \* local json_length
    response,     \* the bytes sock.recv(json_length) returned
    server_data,  \* json.loads(response), see Loads
    attempts,     \* connection attempts made by the current invocation
    recv_calls,   \* sock.recv calls made by the current invocation
    \* ---- read_varint
    rv_value,     \* local value
    rv_size,      \* local size
    rv_out,       \* how the last read_varint call ended
    \* ---- the connection and its peer
    sock,         \* local sock: "None", "open", "closed"
    peer,         \* what the connection attempt met (a Peer)
    wire,         \* segments the peer has sent that have not arrived yet
    rbuf,         \* bytes that have arrived and were not read yet
    peer_eof,     \* the peer's close has arrived (behind everything in rbuf)
    sent,         \* the writes made on the connection, in order
    open_conns,   \* verification connections open right now
    starved,      \* a recv of this connection was made before all arrived
    \* ---- to_varint
    tv_n,         \* local n
    byte_array,   \* local byte_array
    \* ---- select_option
    options,      \* its argument options
    num_cols,     \* local num_cols
    num_rows,     \* local num_rows
    current_row,  \* local current_row
    current_col,  \* local current_col
    mpc,          \* where the menu is: "none", "input", "returned"
    m_ret,        \* what select_option returned
    m_key,        \* local key: the last value read with msvcrt.getch
    \* ---- the main program
    main_pc,      \* where the main program is
    selected_checkpoint,  \* local selected_checkpoint
    resume,       \* local resume
    voyager,      \* the arguments the agent was constructed with
    main_exc,     \* the exception that ended the main program
    \* ---- the environment
    term_width,   \* shutil.get_terminal_size().columns
    fs,           \* the directory ckpts: missing, or its entries
    entry,        \* the function the run calls, and its input
    world         \* the peer behind each port of the host

scanVars   == <<table, idx, spc, mc_port, lookups, skipped, probes>>
verifyVars == <<vpc, v_args, v_ret, exc, json_length, response, server_data,
                attempts, recv_calls>>
rvVars     == <<rv_value, rv_size, rv_out>>
netVars    == <<sock, peer, wire, rbuf, peer_eof, sent, open_conns, starved>>
envVars    == <<entry, world>>
tvVars     == <<tv_n, byte_array>>
menuVars   == <<options, num_cols, num_rows, current_row, current_col, mpc,
                m_ret, m_key, term_width>>
mainVars   == <<main_pc, selected_checkpoint, resume, voyager, main_exc, fs>>
vars       == <<scanVars, verifyVars, rvVars, netVars, envVars, tvVars,
                menuVars, mainVars>>

\* the value of e, computed once, handed to Body
Let(e, Body(_)) == CHOOSE r \in {Body(x) : x \in {e}} : TRUE

-----------------------------------------------------------------------------
(* Python integers                                                         *)

LongBase == 2^30

Long(hi, lo) == [hi |-> hi, lo |-> lo]

\* a Python int given as a TLC integer, 0 <= n < 2^31
LongOfInt(n) == Long(n \div LongBase, n % LongBase)

LongZero == Long(0, 0)

LongLess(a, b) == a.hi < b.hi \/ (a.hi = b.hi /\ a.lo < b.lo)

\* 2^k as a Python int, 0 <= k < 60
LongPow2(k) == IF k < 30 THEN Long(0, 2^k) ELSE Long(2^(k - 30), 0)

\* n - 1 for n > 0
LongPred(n) == IF n.lo = 0 THEN Long(n.hi - 1, LongBase - 1) ELSE Long(n.hi, n.lo - 1)

\* n + 1
LongSucc(n) == IF n.lo = LongBase - 1 THEN Long(n.hi + 1, 0) ELSE Long(n.hi, n.lo + 1)

RECURSIVE BitOr(_, _)
\* a | b on non-negative integers below 2^30: a digit in base 32768 is
\* split again, a digit in base 2 is 1 when either is
BitOr(a, b) ==
    IF a = 0 THEN b
    ELSE IF b = 0 THEN a
    ELSE IF a < 2 /\ b < 2 THEN 1
    ELSE IF a < 8 /\ b < 8
    THEN BitOr(a % 2, b % 2) + 2 * BitOr((a \div 2) % 2, (b \div 2) % 2)
         + 4 * BitOr(a \div 4, b \div 4)
    ELSE IF a < 256 /\ b < 256
    THEN BitOr(a % 8, b % 8) + 8 * BitOr((a \div 8) % 8, (b \div 8) % 8)
         + 64 * BitOr(a \div 64, b \div 64)
    ELSE IF a < 32768 /\ b < 32768
    THEN BitOr(a % 256, b % 256) + 256 * BitOr(a \div 256, b \div 256)
    ELSE BitOr(a % 32768, b % 32768) + 32768 * BitOr(a \div 32768, b \div 32768)

\* a | b on Python ints
LongOr(a, b) == Long(BitOr(a.hi, b.hi), BitOr(a.lo, b.lo))

\* n & 0x7F
LongAnd7F(n) == n.lo % 128

\* (n & ~0x7F) != 0
LongAboveSevenBits(n) == n.hi # 0 \/ n.lo \div 128 # 0

\* n >> 7
LongShr7(n) == Long(n.hi \div 128, ((n.hi % 128) * 2^23) + (n.lo \div 128))

\* g << s for a 7-bit g and 0 <= s <= 42
LongShl(g, s) ==
    IF s < 30
    THEN Long(g \div 2^(30 - s), (g % 2^(30 - s)) * 2^s)
    ELSE Long(g * 2^(s - 30), 0)

-----------------------------------------------------------------------------
(* VarInt codec                                                            *)

RECURSIVE to_varint(_)
\* to_varint(n) of src/__main__.py for n >= 0: the loop appends the low 7
\* bits with the continuation bit while bits above the low 7 remain, then
\* appends what is left.
to_varint(n) ==
    Let(n, LAMBDA number :
        IF LongAboveSevenBits(number)
        THEN <<BitOr(LongAnd7F(number), 128)>> \o to_varint(LongShr7(number))
        ELSE <<number.lo>>)

\* the size limit read_varint enforces (size > 5)
MaxVarIntSize == 5

\* read_varint's pass with the size test written `size >= 5`
read_varint_pass_at_five(value, size, got) ==
    IF Len(got) = 0
    THEN [value |-> value, size |-> size, ends |-> "eof"]
    ELSE LET byte == got[1]
             v    == LongOr(value, LongShl(byte % 128, 7 * size))
             s    == size + 1
         IN  [value |-> v, size |-> s,
              ends  |-> IF s >= MaxVarIntSize THEN "toobig"
                        ELSE IF byte \div 128 = 0 THEN "break"
                        ELSE "loop"]

\* read_varint's pass with the continuation test before the size test
read_varint_pass_break_first(value, size, got) ==
    IF Len(got) = 0
    THEN [value |-> value, size |-> size, ends |-> "eof"]
    ELSE LET byte == got[1]
             v    == LongOr(value, LongShl(byte % 128, 7 * size))
             s    == size + 1
         IN  [value |-> v, size |-> s,
              ends  |-> IF byte \div 128 = 0 THEN "break"
                        ELSE IF s > MaxVarIntSize THEN "toobig"
                        ELSE "loop"]

\* One pass of read_varint's loop body on the byte string `got` that
\* sock.recv(1) returned: the new value and size, and how the pass ends:
\* "eof" and "toobig" raise, "break" returns value, "loop" goes round again.
read_varint_pass(value, size, got) ==
    IF Len(got) = 0
    THEN [value |-> value, size |-> size, ends |-> "eof"]
    ELSE LET byte == got[1]
             v    == LongOr(value, LongShl(byte % 128, 7 * size))
             s    == size + 1
         IN  [value |-> v, size |-> s,
              ends  |-> IF s > MaxVarIntSize THEN "toobig"
                        ELSE IF byte \div 128 = 0 THEN "break"
                        ELSE "loop"]

-----------------------------------------------------------------------------
(* Text and UTF-8                                                          *)

\* str.encode("utf-8") of one code point; <<>> stands for UnicodeEncodeError
\* (a lone surrogate)
Utf8EncodeChar(c) ==
    IF c < 128 THEN <<c>>
    ELSE IF c < 2048 THEN <<192 + (c \div 64), 128 + (c % 64)>>
    ELSE IF c >= 55296 /\ c <= 57343 THEN <<>>
    ELSE IF c < 65536 THEN <<224 + (c \div 4096), 128 + ((c \div 64) % 64), 128 + (c % 64)>>
    ELSE <<240 + (c \div 262144), 128 + ((c \div 4096) % 64),
           128 + ((c \div 64) % 64), 128 + (c % 64)>>

\* str.encode("utf-8"): [ok, bytes]; not ok is UnicodeEncodeError.  The
\* encoding of a text is the encodings of its characters in order: each
\* character is given four places, and the places it does not fill (-1)
\* are dropped.
Utf8Encode(s) ==
    Let(s, LAMBDA text :
        IF \E i \in DOMAIN text : Utf8EncodeChar(text[i]) = <<>>
        THEN [ok |-> FALSE, bytes |-> <<>>]
        ELSE [ok    |-> TRUE,
              bytes |-> SelectSeq(
                            [j \in 1..(4 * Len(text)) |->
                                IF ((j - 1) % 4) + 1 <= Len(Utf8EncodeChar(text[((j - 1) \div 4) + 1]))
                                THEN Utf8EncodeChar(text[((j - 1) \div 4) + 1])[((j - 1) % 4) + 1]
                                ELSE -1],
                            LAMBDA b : b >= 0)])

IsCont(b) == b >= 128 /\ b <= 191

\* the number of bytes of the character the lead byte c starts, 0 when c
\* starts none
Utf8Width(c) ==
    IF c < 128 THEN 1
    ELSE IF c >= 194 /\ c <= 223 THEN 2
    ELSE IF c >= 224 /\ c <= 239 THEN 3
    ELSE IF c >= 240 /\ c <= 244 THEN 4
    ELSE 0

\* a well-formed character starts at b[i]
Utf8CharAt(b, i) ==
    LET w == Utf8Width(b[i])
    IN  /\ w > 0
        /\ i + w - 1 <= Len(b)
        /\ \A k \in 1..(w - 1) : IsCont(b[i + k])
        /\ (i + w <= Len(b) => ~IsCont(b[i + w]))
        /\ (b[i] = 224 => b[i + 1] >= 160)
        /\ (b[i] = 237 => b[i + 1] <= 159)
        /\ (b[i] = 240 => b[i + 1] >= 144)
        /\ (b[i] = 244 => b[i + 1] <= 143)

\* the code point of the well-formed character that starts at b[i]
Utf8CodePoint(b, i) ==
    CASE Utf8Width(b[i]) = 2 -> (b[i] - 192) * 64 + (b[i + 1] - 128)
      [] Utf8Width(b[i]) = 3 -> (b[i] - 224) * 4096 + (b[i + 1] - 128) * 64
                                + (b[i + 2] - 128)
      [] Utf8Width(b[i]) = 4 -> (b[i] - 240) * 262144 + (b[i + 1] - 128) * 4096
                                + (b[i + 2] - 128) * 64 + (b[i + 3] - 128)
      [] OTHER               -> b[i]

\* bytes.decode("ascii") in the place of bytes.decode("utf-8")
Utf8Decode_ascii(b) ==
    IF \A i \in DOMAIN b : b[i] < 128
    THEN [ok |-> TRUE, text |-> b]
    ELSE [ok |-> FALSE, text |-> <<>>]

\* bytes.decode("utf-8"), strict: [ok, text]; not ok is UnicodeDecodeError.
\* The characters start at the bytes that are no continuation bytes.
Utf8Decode(b) ==
    LET IsLead(i) == ~IsCont(b[i])
    IN  Let(SelectSeq([i \in 1..Len(b) |-> i], IsLead), LAMBDA leads :
        IF /\ (b # <<>> => IsLead(1))
           /\ \A k \in 1..Len(leads) : Utf8CharAt(b, leads[k])
        THEN [ok |-> TRUE, text |-> [k \in 1..Len(leads) |-> Utf8CodePoint(b, leads[k])]]
        ELSE [ok |-> FALSE, text |-> <<>>])

-----------------------------------------------------------------------------
(* Packet builder                                                          *)

\* struct.pack("!H", port_number): [ok, bytes]; not ok is struct.error
PackH(port_number) ==
    IF port_number >= 0 /\ port_number <= 65535
    THEN [ok |-> TRUE, bytes |-> <<port_number \div 256, port_number % 256>>]
    ELSE [ok |-> FALSE, bytes |-> <<>>]

\* the protocol version the handshake declares
ProtocolVersion == 759

\* the packet builder with a length prefix that counts itself
construct_handshake_packet_counts_prefix(ip_addr, port_number) ==
    Let(Utf8Encode(ip_addr), LAMBDA enc :
    Let(PackH(port_number), LAMBDA port_bytes :
    Let(<<0>> \o to_varint(LongOfInt(ProtocolVersion))
        \o to_varint(LongOfInt(Len(enc.bytes))) \o enc.bytes
        \o port_bytes.bytes \o <<1>>, LAMBDA handshake_packet :
        IF enc.ok /\ port_bytes.ok
        THEN [ok |-> TRUE,
              bytes |-> to_varint(LongOfInt(Len(handshake_packet) + 1))
                        \o handshake_packet]
        ELSE [ok |-> FALSE, bytes |-> <<>>])))

\* construct_handshake_packet(ip_addr, port_number): [ok, bytes]; not ok
\* when encoding the address or packing the port raises
construct_handshake_packet(ip_addr, port_number) ==
    LET packet_id        == <<0>>
        protocol_version == to_varint(LongOfInt(ProtocolVersion))
        next_state       == <<1>>
    IN
    Let(Utf8Encode(ip_addr), LAMBDA ip_address_bytes :
    Let(to_varint(LongOfInt(Len(ip_address_bytes.bytes))), LAMBDA ip_address_length :
    Let(PackH(port_number), LAMBDA port_bytes :
    Let(packet_id \o protocol_version \o ip_address_length
        \o ip_address_bytes.bytes \o port_bytes.bytes \o next_state,
        LAMBDA handshake_packet :
    Let(to_varint(LongOfInt(Len(handshake_packet))), LAMBDA handshake_length :
        IF ip_address_bytes.ok /\ port_bytes.ok
        THEN [ok |-> TRUE, bytes |-> handshake_length \o handshake_packet]
        ELSE [ok |-> FALSE, bytes |-> <<>>])))))

\* the Status Request packet as its comment describes it: one byte, 0x00
status_request_packet_one_byte == <<0>>

\* the Status Request packet send_handshake_and_status writes second
status_request_packet == <<1, 0>>

-----------------------------------------------------------------------------
(* json.loads and the membership test on its result                        *)

\* the characters the scanner tests for
Ch == [quote |-> 34, backslash |-> 92, lbrace |-> 123, rbrace |-> 125,
       lbrack |-> 91, rbrack |-> 93, colon |-> 58, comma |-> 44,
       minus |-> 45, plus |-> 43, dot |-> 46, zero |-> 48, nine |-> 57,
       e |-> 101, E |-> 69, u |-> 117, bom |-> 65279]

\* "description" and "players", the keys line 82 looks for
DescriptionKey == <<100, 101, 115, 99, 114, 105, 112, 116, 105, 111, 110>>
PlayersKey     == <<112, 108, 97, 121, 101, 114, 115>>

\* a scanned value: t is "obj", "arr", "str", "num", "true", "false",
\* "null"; str the text of a string; keys the keys of an object; elems the
\* strings among the items of an array; end the index after the value
JVal(t, end, str, keys, elems) ==
    [ok |-> TRUE, end |-> end, t |-> t, str |-> str, keys |-> keys, elems |-> elems]

\* JSONDecodeError
JFail == [ok |-> FALSE, end |-> 0, t |-> "error", str |-> <<>>, keys |-> {}, elems |-> {}]

IsWs(c) == c \in {32, 9, 10, 13}

IsDigit(c) == c >= Ch.zero /\ c <= Ch.nine

\* the index after the whitespace that starts at i
SkipWs(s, i) ==
    IF i > Len(s) THEN i
    ELSE CHOOSE j \in i..(Len(s) + 1) :
            /\ \A k \in i..(j - 1) : IsWs(s[k])
            /\ (j = Len(s) + 1 \/ ~IsWs(s[j]))

\* the index after the digits that start at i
SkipDigits(s, i) ==
    IF i > Len(s) THEN i
    ELSE CHOOSE j \in i..(Len(s) + 1) :
            /\ \A k \in i..(j - 1) : IsDigit(s[k])
            /\ (j = Len(s) + 1 \/ ~IsDigit(s[j]))

At(s, i, c) == i <= Len(s) /\ s[i] = c

StartsWith(s, i, lit) ==
    i + Len(lit) - 1 <= Len(s) /\ SubSeq(s, i, i + Len(lit) - 1) = lit

\* value of a hexadecimal digit, -1 when it is none
HexVal(c) ==
    IF IsDigit(c) THEN c - 48
    ELSE IF c >= 97 /\ c <= 102 THEN c - 87
    ELSE IF c >= 65 /\ c <= 70 THEN c - 55
    ELSE -1

\* the code unit of \uXXXX whose X start at i, -1 when malformed
Hex4(s, i) ==
    IF i + 3 <= Len(s) /\ \A k \in 0..3 : HexVal(s[i + k]) >= 0
    THEN HexVal(s[i]) * 4096 + HexVal(s[i + 1]) * 256 + HexVal(s[i + 2]) * 16 + HexVal(s[i + 3])
    ELSE -1

\* the character a one-letter escape stands for, -1 when it is none
Unescape(c) ==
    CASE c = 34  -> 34
      [] c = 92  -> 92
      [] c = 47  -> 47
      [] c = 98  -> 8
      [] c = 102 -> 12
      [] c = 110 -> 10
      [] c = 114 -> 13
      [] c = 116 -> 9
      [] OTHER   -> -1

\* a character of a string that is copied as it stands
IsPlain(c) == c >= 32 /\ c # Ch.quote /\ c # Ch.backslash

\* the index after the plain characters that start at i
SkipPlain(s, i) ==
    IF i > Len(s) THEN i
    ELSE CHOOSE j \in i..(Len(s) + 1) :
            /\ \A k \in i..(j - 1) : IsPlain(s[k])
            /\ (j = Len(s) + 1 \/ ~IsPlain(s[j]))

RECURSIVE ScanString(_, _, _)
\* the string whose opening quote is just before i (strict: no control
\* characters), acc what was read of it: the plain characters up to the
\* closing quote or the next escape are taken at once
ScanString(s, i, acc) ==
    Let(SkipPlain(s, i), LAMBDA at :
    LET read == acc \o SubSeq(s, i, at - 1)
    IN
    IF at > Len(s) THEN JFail
    ELSE IF s[at] = Ch.quote THEN JVal("str", at + 1, read, {}, {})
    ELSE IF s[at] < 32 THEN JFail
    ELSE IF at + 1 > Len(s) THEN JFail
    ELSE IF s[at + 1] = Ch.u
         THEN LET hi == Hex4(s, at + 2)
                  lo == IF StartsWith(s, at + 6, <<Ch.backslash, Ch.u>>)
                        THEN Hex4(s, at + 8) ELSE -1
              IN  IF hi < 0 THEN JFail
                  ELSE IF hi >= 55296 /\ hi <= 56319 /\ lo >= 56320 /\ lo <= 57343
                       THEN ScanString(s, at + 12,
                                Append(read, 65536 + (hi - 55296) * 1024 + (lo - 56320)))
                       ELSE ScanString(s, at + 6, Append(read, hi))
         ELSE IF Unescape(s[at + 1]) < 0 THEN JFail
              ELSE ScanString(s, at + 2, Append(read, Unescape(s[at + 1]))))

\* the index after the number that starts at i, 0 when none does:
\* -?(0|[1-9]\d*)(\.\d+)?([eE][-+]?\d+)?
ScanNumber(s, i) ==
    LET a == IF At(s, i, Ch.minus) THEN i + 1 ELSE i
    IN
    Let(IF At(s, a, Ch.zero) THEN a + 1 ELSE SkipDigits(s, a), LAMBDA b :
    LET fe == SkipDigits(s, b + 1)
    IN
    Let(IF At(s, b, Ch.dot) /\ fe > b + 1 THEN fe ELSE b, LAMBDA c :
    LET es == IF At(s, c + 1, Ch.minus) \/ At(s, c + 1, Ch.plus) THEN c + 2 ELSE c + 1
        ee == SkipDigits(s, es)
    IN  IF b = a THEN 0
        ELSE IF (At(s, c, Ch.e) \/ At(s, c, Ch.E)) /\ ee > es THEN ee
        ELSE c))

LitNull     == <<110, 117, 108, 108>>
LitTrue     == <<116, 114, 117, 101>>
LitFalse    == <<102, 97, 108, 115, 101>>
LitNaN      == <<78, 97, 78>>
LitInfinity == <<73, 110, 102, 105, 110, 105, 116, 121>>

RECURSIVE ScanOnce(_, _)
RECURSIVE ScanMembers(_, _, _)
RECURSIVE ScanItems(_, _, _)

\* the members of an object from the key whose opening quote is just before i
ScanMembers(s, i, keys) ==
    Let(ScanString(s, i, <<>>), LAMBDA k :
        IF ~k.ok THEN JFail
        ELSE IF ~At(s, SkipWs(s, k.end), Ch.colon) THEN JFail
        ELSE
    Let(ScanOnce(s, SkipWs(s, SkipWs(s, k.end) + 1)), LAMBDA v :
        IF ~v.ok THEN JFail
        ELSE LET d  == SkipWs(s, v.end)
                 q  == SkipWs(s, d + 1)
                 ks == keys \cup {k.str}
             IN  IF At(s, d, Ch.rbrace) THEN JVal("obj", d + 1, <<>>, ks, {})
                 ELSE IF At(s, d, Ch.comma) /\ At(s, q, Ch.quote)
                      THEN ScanMembers(s, q + 1, ks)
                      ELSE JFail))

\* the items of an array from the item that starts at i
ScanItems(s, i, elems) ==
    Let(ScanOnce(s, i), LAMBDA v :
        IF ~v.ok THEN JFail
        ELSE LET d  == SkipWs(s, v.end)
                 es == IF v.t = "str" THEN elems \cup {v.str} ELSE elems
             IN  IF At(s, d, Ch.rbrack) THEN JVal("arr", d + 1, <<>>, {}, es)
                 ELSE IF At(s, d, Ch.comma) THEN ScanItems(s, SkipWs(s, d + 1), es)
                 ELSE JFail)

\* the value that starts at i
ScanOnce(s, i) ==
    LET at == i
        j  == SkipWs(s, at + 1)
        n  == ScanNumber(s, at)
    IN
    IF at > Len(s) THEN JFail
    ELSE IF s[at] = Ch.quote THEN ScanString(s, at + 1, <<>>)
    ELSE IF s[at] = Ch.lbrace
         THEN IF At(s, j, Ch.rbrace) THEN JVal("obj", j + 1, <<>>, {}, {})
              ELSE IF At(s, j, Ch.quote) THEN ScanMembers(s, j + 1, {})
              ELSE JFail
    ELSE IF s[at] = Ch.lbrack
         THEN IF At(s, j, Ch.rbrack) THEN JVal("arr", j + 1, <<>>, {}, {})
              ELSE ScanItems(s, j, {})
    ELSE IF StartsWith(s, at, LitNull) THEN JVal("null", at + 4, <<>>, {}, {})
    ELSE IF StartsWith(s, at, LitTrue) THEN JVal("true", at + 4, <<>>, {}, {})
    ELSE IF StartsWith(s, at, LitFalse) THEN JVal("false", at + 5, <<>>, {}, {})
    ELSE IF n > 0 THEN JVal("num", n, <<>>, {}, {})
    ELSE IF StartsWith(s, at, LitNaN) THEN JVal("num", at + 3, <<>>, {}, {})
    ELSE IF StartsWith(s, at, LitInfinity) THEN JVal("num", at + 8, <<>>, {}, {})
    ELSE IF StartsWith(s, at, <<Ch.minus>> \o LitInfinity)
         THEN JVal("num", at + 9, <<>>, {}, {})
    ELSE JFail

\* json.loads(text): the one value of the text, white space around it
\* allowed and nothing else; not ok is JSONDecodeError
Loads(text) ==
    Let(text, LAMBDA s :
    Let(ScanOnce(s, SkipWs(s, 1)), LAMBDA v :
        IF At(s, 1, Ch.bom) THEN JFail
        ELSE IF ~v.ok THEN JFail
        ELSE IF SkipWs(s, v.end) # Len(s) + 1 THEN JFail
        ELSE v))

\* needle is a contiguous part of hay
Contains(needle, hay) ==
    \E i \in 1..(Len(hay) - Len(needle) + 1) :
        SubSeq(hay, i, i + Len(needle) - 1) = needle

\* `key in v` can be evaluated: v is a dict, a list or a str (TypeError
\* otherwise)
Iterable(v) == v.t \in {"obj", "arr", "str"}

\* `key in v`: a key of the dict, an item of the list, a part of the str
PyIn(key, v) ==
    CASE v.t = "obj" -> key \in v.keys
      [] v.t = "arr" -> key \in v.elems
      [] v.t = "str" -> Contains(key, v.str)
      [] OTHER       -> FALSE

\* lines 82-87: "description" in server_data and "players" in server_data
HasServerFields(v) == PyIn(DescriptionKey, v) /\ PyIn(PlayersKey, v)

-----------------------------------------------------------------------------
(* The host: processes and the socket table                                *)

\* "java" and "minecraft", the markers of lines 129 and 132
JavaMarker      == <<106, 97, 118, 97>>
MinecraftMarker == <<109, 105, 110, 101, 99, 114, 97, 102, 116>>

\* str.lower() on the ASCII letters
Lower(s) == [i \in DOMAIN s |-> IF s[i] >= 65 /\ s[i] <= 90 THEN s[i] + 32 ELSE s[i]]

\* line 129: 'java' in process.name().lower()
NameMatches(proc) == Contains(JavaMarker, Lower(proc.name))

\* line 132 looking for 'java' where it looks for 'minecraft'
CmdlineMatches_java_marker(proc) ==
    \E k \in DOMAIN proc.cmdline : Contains(JavaMarker, Lower(proc.cmdline[k]))

\* line 132: any('minecraft' in arg.lower() for arg in cmdline)
CmdlineMatches(proc) ==
    \E k \in DOMAIN proc.cmdline : Contains(MinecraftMarker, Lower(proc.cmdline[k]))

\* the processes of the host, by pid:
\*   100  java -jar minecraft_server.jar
\*   101  JAVA.EXE  C:\Games\.Minecraft\server.jar
\*   200  python minecraft.py
\*   300  java -jar jenkins.war
Processes ==
    (100 :> [name    |-> <<106, 97, 118, 97>>,
             cmdline |-> << <<106, 97, 118, 97>>, <<45, 106, 97, 114>>,
                            <<109, 105, 110, 101, 99, 114, 97, 102, 116, 95, 115, 101,
                              114, 118, 101, 114, 46, 106, 97, 114>> >>]) @@
    (101 :> [name    |-> <<74, 65, 86, 65, 46, 69, 88, 69>>,
             cmdline |-> << <<74, 65, 86, 65, 46, 69, 88, 69>>,
                            <<67, 58, 92, 71, 97, 109, 101, 115, 92, 46, 77, 105, 110,
                              101, 99, 114, 97, 102, 116, 92, 115, 101, 114, 118, 101,
                              114, 46, 106, 97, 114>> >>]) @@
    (200 :> [name    |-> <<112, 121, 116, 104, 111, 110>>,
             cmdline |-> << <<112, 121, 116, 104, 111, 110>>,
                            <<109, 105, 110, 101, 99, 114, 97, 102, 116, 46, 112, 121>> >>]) @@
    (300 :> [name    |-> <<106, 97, 118, 97>>,
             cmdline |-> << <<106, 97, 118, 97>>, <<45, 106, 97, 114>>,
                            <<106, 101, 110, 107, 105, 110, 115, 46, 119, 97, 114>> >>])

\* how resolving a socket's process can go: no exception, or NoSuchProcess
\* or AccessDenied raised by psutil.Process (at 1), name() (at 2) or
\* cmdline() (at 3)
LookupOutcomes ==
    {[raises |-> "none", at |-> 0]} \cup
    [raises : {"NoSuchProcess", "AccessDenied"}, at : 1..3]

\* line 135 catching psutil.NoSuchProcess alone
ScanCatches_no_such_process(e) == e = "NoSuchProcess"

\* the exceptions line 135 catches
ScanCatches(e) == e \in {"NoSuchProcess", "AccessDenied"}

Conn(status, pid, port) == [status |-> status, pid |-> pid, port |-> port]

\* the sockets a table is made of
SampleSockets ==
    { Conn("LISTEN", 100, 25565), Conn("LISTEN", 101, 25566),
      Conn("LISTEN", 100, 25567), Conn("LISTEN", 101, 25568),
      Conn("ESTABLISHED", 100, 25565),
      Conn("LISTEN", 200, 8080),  Conn("LISTEN", 300, 8081) }

\* the longest socket table examined
MaxSockets == 3

RECURSIVE SeqsUpTo(_, _)
\* the sequences of at most n elements of S
SeqsUpTo(S, n) ==
    IF n = 0 THEN {<<>>}
    ELSE LET shorter == SeqsUpTo(S, n - 1)
         IN  shorter \cup {Append(q, x) : q \in {r \in shorter : Len(r) = n - 1}, x \in S}

Tables == SeqsUpTo(SampleSockets, MaxSockets)

\* "127.0.0.1", the address line 133 passes, and "localhost"
Loopback  == <<49, 50, 55, 46, 48, 46, 48, 46, 49>>
Localhost == <<108, 111, 99, 97, 108, 104, 111, 115, 116>>

-----------------------------------------------------------------------------
(* Peers: what a port answers                                              *)

\* a peer: listen says what a connection attempt meets ("accept", "refuse"
\* or "drop", which times out); segs are the segments it sends, in order;
\* closes: it closes once they are sent; eager: it sends without waiting for
\* the request; flood: it sends 0x80 bytes for ever; reset_at: the sendall
\* (1 or 2) that finds the connection reset, 0 for none
Peer(listen, segs, closes, eager, flood, reset_at) ==
    [listen |-> listen, segs |-> segs, closes |-> closes, eager |-> eager,
     flood |-> flood, reset_at |-> reset_at]

NoPeer == Peer("refuse", <<>>, FALSE, FALSE, FALSE, 0)

Quoted(text) == <<Ch.quote>> \o text \o <<Ch.quote>>

\* {"description":1,"players":2}
TextBoth ==
    <<Ch.lbrace>> \o Quoted(DescriptionKey) \o <<Ch.colon, 49, Ch.comma>>
    \o Quoted(PlayersKey) \o <<Ch.colon, 50, Ch.rbrace>>

\* {"description":"A Server","players":{"max":20,"online":0}}
TextStatus ==
    <<Ch.lbrace>> \o Quoted(DescriptionKey) \o <<Ch.colon>>
    \o Quoted(<<65, 32, 83, 101, 114, 118, 101, 114>>) \o <<Ch.comma>>
    \o Quoted(PlayersKey) \o <<Ch.colon, Ch.lbrace>>
    \o Quoted(<<109, 97, 120>>) \o <<Ch.colon, 50, 48, Ch.comma>>
    \o Quoted(<<111, 110, 108, 105, 110, 101>>) \o <<Ch.colon, 48, Ch.rbrace, Ch.rbrace>>

\* {"foo":"bar"}
TextFoo ==
    <<Ch.lbrace>> \o Quoted(<<102, 111, 111>>) \o <<Ch.colon>>
    \o Quoted(<<98, 97, 114>>) \o <<Ch.rbrace>>

\* {"description":1}  and  {"players":2}
TextDescriptionOnly ==
    <<Ch.lbrace>> \o Quoted(DescriptionKey) \o <<Ch.colon, 49, Ch.rbrace>>
TextPlayersOnly ==
    <<Ch.lbrace>> \o Quoted(PlayersKey) \o <<Ch.colon, 50, Ch.rbrace>>

\* ["description","players"]
TextArray ==
    <<Ch.lbrack>> \o Quoted(DescriptionKey) \o <<Ch.comma>> \o Quoted(PlayersKey)
    \o <<Ch.rbrack>>

\* "description players"
TextString == Quoted(DescriptionKey \o <<32>> \o PlayersKey)

\* {"description":"é","players":2}  (a two-byte character)
TextAccent ==
    <<Ch.lbrace>> \o Quoted(DescriptionKey) \o <<Ch.colon>> \o Quoted(<<233>>)
    \o <<Ch.comma>> \o Quoted(PlayersKey) \o <<Ch.colon, 50, Ch.rbrace>>

\* the payloads with both fields in an object
GoodTexts == {TextBoth, TextStatus, TextAccent, TextBoth \o <<32, 32>>}

\* the other payloads that are JSON: objects without a field, an array, a
\* string, a number, null, true, the empty object
OtherTexts ==
    {TextFoo, TextDescriptionOnly, TextPlayersOnly, TextArray, TextString,
     <<53>>, LitNull, LitTrue, <<Ch.lbrace, Ch.rbrace>>}

\* payloads that are no JSON: cut short, empty
BrokenTexts == {SubSeq(TextBoth, 1, 17), <<>>}

\* a payload that is no UTF-8
BytesNotUtf8 == <<Ch.lbrace, 255, Ch.rbrace>>

Payloads ==
    {Utf8Encode(t).bytes : t \in GoodTexts \cup OtherTexts \cup BrokenTexts}
    \cup {BytesNotUtf8}

\* packet ids as VarInts: 0, 128, and the largest five-byte one
PacketIds == {to_varint(LongZero), to_varint(LongOfInt(128)), <<255, 255, 255, 255, 127>>}

\* the part of a status response before the payload: total length, packet
\* id, then the payload length `declared`
FrameHeader(id, payload, declared) ==
    to_varint(LongOfInt(Len(id) + Len(to_varint(declared)) + Len(payload)))
    \o id \o to_varint(declared)

\* a correctly framed status response
Frame(id, payload) ==
    FrameHeader(id, payload, LongOfInt(Len(payload))) \o payload

\* the ways a response is cut into segments: whole; header, then payload;
\* the header byte by byte, then the payload; the payload in two halves
Segmentations(header, payload) ==
    { <<header \o payload>>,
      <<header, payload>>,
      [i \in 1..Len(header) |-> <<header[i]>>] \o <<payload>>,
      <<header \o SubSeq(payload, 1, Len(payload) \div 2),
        SubSeq(payload, Len(payload) \div 2 + 1, Len(payload))>> }

\* servers that answer the request with a correctly framed response
FramedPeers ==
    { Peer("accept", segs, closes, FALSE, FALSE, 0) :
        segs \in UNION { Segmentations(FrameHeader(id, pl, LongOfInt(Len(pl))), pl) :
                            id \in PacketIds, pl \in Payloads },
        closes \in BOOLEAN }

\* servers whose response stops short: the first k bytes of a frame
CutPeers ==
    { Peer("accept", <<SubSeq(Frame(<<0>>, pl), 1, k)>>, closes, FALSE, FALSE, 0) :
        pl \in {Utf8Encode(TextBoth).bytes, Utf8Encode(TextBoth \o <<32, 32>>).bytes},
        k \in {1, 2, 3, 20, 32}, closes \in BOOLEAN }

\* servers that declare another payload length than they send: more than
\* the payload, less, and more than any buffer
MisdeclaredPeers ==
    LET pl == Utf8Encode(TextBoth).bytes
    IN  { Peer("accept", <<FrameHeader(<<0>>, pl, d) \o pl>>, closes, FALSE, FALSE, 0) :
            d \in {LongOfInt(Len(pl) + 5), LongOfInt(Len(pl) - 1), LongZero,
                   LongPred(LongPow2(35))},
            closes \in BOOLEAN }

\* peers that speak another protocol or none
OtherPeers ==
    { NoPeer,
      Peer("drop", <<>>, FALSE, FALSE, FALSE, 0),
      Peer("accept", <<>>, FALSE, FALSE, FALSE, 0),
      Peer("accept", <<>>, TRUE, FALSE, FALSE, 0),
      Peer("accept", <<>>, FALSE, FALSE, TRUE, 0),
      Peer("accept", <<>>, FALSE, FALSE, FALSE, 1),
      Peer("accept", <<>>, FALSE, FALSE, FALSE, 2),
      Peer("accept", << <<83, 83, 72, 45, 50, 46, 48, 13, 10>> >>, FALSE, TRUE, FALSE, 0),
      Peer("accept", << <<128, 128, 128, 128, 128, 1>> >>, TRUE, FALSE, FALSE, 0),
      Peer("accept", << <<128, 128, 128, 128, 128>> >>, TRUE, FALSE, FALSE, 0),
      Peer("accept", << <<1>>, <<128, 128>>, <<128, 128, 128, 128>> >>, FALSE, FALSE, FALSE, 0) }

AllPeers == FramedPeers \cup CutPeers \cup MisdeclaredPeers \cup OtherPeers

\* the ports a world describes
WorldPorts == {25565, 25566, 25567, 25568, 8080, 8081}

\* the host the scanner runs on: a status server on 25565, a server that
\* answers {"foo":"bar"} and closes on 25566, nothing on 25567, a silent
\* listener on 25568, other services elsewhere
ScanWorld ==
    [p \in WorldPorts |->
        CASE p = 25565 -> Peer("accept",
                               <<FrameHeader(<<0>>, Utf8Encode(TextStatus).bytes,
                                             LongOfInt(Len(Utf8Encode(TextStatus).bytes))),
                                 Utf8Encode(TextStatus).bytes>>,
                               FALSE, FALSE, FALSE, 0)
          [] p = 25566 -> Peer("accept", <<Frame(<<0>>, Utf8Encode(TextFoo).bytes)>>,
                               TRUE, FALSE, FALSE, 0)
          [] p = 25567 -> NoPeer
          [] p = 25568 -> Peer("accept", <<>>, FALSE, FALSE, FALSE, 0)
          [] OTHER     -> Peer("accept", <<>>, TRUE, FALSE, FALSE, 0)]

-----------------------------------------------------------------------------
(* verify_minecraft_server                                                 *)

\* `except Exception` (line 89): the exceptions the try block can raise are
\* all subclasses of Exception
Caught(e) ==
    e \in {"ConnectionRefusedError", "timeout", "OverflowError",
           "ConnectionResetError", "UnicodeEncodeError", "struct.error",
           "IOError: Unexpected end of stream while reading VarInt",
           "IOError: VarInt is too big.", "MemoryError", "UnicodeDecodeError",
           "JSONDecodeError", "TypeError"}

\* a finally block that leaves the socket as it is
Finally_leak(s) == s

\* the finally block (lines 93-95) on local sock
Finally(s) == IF s # "None" THEN "closed" ELSE s

\* the verifier's control state after a step: where it is, its result, the
\* exception, its socket and the count of open connections
Stay(pc) ==
    [vpc |-> pc, v_ret |-> v_ret, exc |-> exc, sock |-> sock, open_conns |-> open_conns]

\* a return from the try block or its handler: the finally block runs on the
\* socket s the invocation holds
ReturnWith(ret, e, s) ==
    [vpc |-> "returned", v_ret |-> ret, exc |-> e, sock |-> Finally(s),
     open_conns |-> IF s = "open" /\ Finally(s) = "closed"
                    THEN open_conns - 1 ELSE open_conns]

\* `return True` / `return False` of lines 84 and 87
Return(ret) == ReturnWith(ret, "none", sock)

\* an exception in the try block: the handler returns False (line 91), and
\* what it does not catch leaves the function
Raise(e) == IF Caught(e) THEN ReturnWith("False", e, sock) ELSE ReturnWith("raised", e, sock)

Become(o) ==
    /\ vpc' = o.vpc
    /\ v_ret' = o.v_ret
    /\ exc' = o.exc
    /\ sock' = o.sock
    /\ open_conns' = o.open_conns

NoOutcome == [kind |-> "none", value |-> LongZero, size |-> 0]

\* the call verify_minecraft_server(ip_addr, port_number): line 60
Call(ip_addr, port_number) ==
    /\ vpc' = "connect"
    /\ v_args' = [ip_addr |-> ip_addr, port_number |-> port_number]
    /\ v_ret' = "pending"
    /\ exc' = "none"
    /\ sock' = "None"
    /\ json_length' = LongZero
    /\ response' = <<>>
    /\ server_data' = JFail
    /\ attempts' = 0
    /\ recv_calls' = 0
    /\ rv_value' = LongZero
    /\ rv_size' = 0
    /\ rv_out' = NoOutcome

\* what a connection attempt to the port meets
Listener(port_number) ==
    IF port_number \in DOMAIN world THEN world[port_number] ELSE NoPeer

\* line 63: socket.create_connection((ip_addr, port_number), timeout=5)
Connect ==
    /\ vpc = "connect"
    /\ attempts' = attempts + 1
    /\ sent' = <<>>
    /\ rbuf' = <<>>
    /\ peer_eof' = FALSE
    /\ starved' = FALSE
    /\ IF v_args.port_number < 0 \/ v_args.port_number > 65535
       THEN /\ Become(Raise("OverflowError"))
            /\ peer' = NoPeer
            /\ wire' = <<>>
       ELSE LET p == Listener(v_args.port_number)
            IN  /\ peer' = p
                /\ wire' = IF p.listen = "accept" THEN p.segs ELSE <<>>
                /\ Become(CASE p.listen = "accept" ->
                                 [vpc |-> "send_handshake", v_ret |-> v_ret, exc |-> exc,
                                  sock |-> "open", open_conns |-> open_conns + 1]
                            [] p.listen = "refuse" -> Raise("ConnectionRefusedError")
                            [] OTHER -> Raise("timeout"))
    /\ UNCHANGED <<v_args, json_length, response, server_data, recv_calls>>
    /\ UNCHANGED <<scanVars, rvVars, envVars, menuVars, mainVars, tvVars>>

\* lines 66 and 53: build the handshake and sock.sendall it
SendHandshake ==
    /\ vpc = "send_handshake"
    /\ \E full_handshake_packet \in
              {construct_handshake_packet(v_args.ip_addr, v_args.port_number)} :
           IF ~full_handshake_packet.ok
           THEN Become(Raise("UnicodeEncodeError")) /\ UNCHANGED sent
           ELSE IF peer.reset_at = 1
           THEN Become(Raise("ConnectionResetError")) /\ UNCHANGED sent
           ELSE /\ sent' = Append(sent, full_handshake_packet.bytes)
                /\ Become(Stay("send_status"))
    /\ UNCHANGED <<v_args, json_length, response, server_data, attempts, recv_calls>>
    /\ UNCHANGED <<peer, wire, rbuf, peer_eof, starved>>
    /\ UNCHANGED <<scanVars, rvVars, envVars, menuVars, mainVars, tvVars>>

\* lines 55-56: sock.sendall(status_request_packet)
SendStatus ==
    /\ vpc = "send_status"
    /\ IF peer.reset_at = 2
       THEN Become(Raise("ConnectionResetError")) /\ UNCHANGED sent
       ELSE /\ sent' = Append(sent, status_request_packet)
            /\ Become(Stay("read_length"))
    /\ UNCHANGED <<v_args, json_length, response, server_data, attempts, recv_calls>>
    /\ UNCHANGED <<peer, wire, rbuf, peer_eof, starved>>
    /\ UNCHANGED <<scanVars, rvVars, envVars, menuVars, mainVars, tvVars>>

\* a recv on the connection returns: bytes have arrived, or the peer's close
RecvReady == rbuf # <<>> \/ peer_eof

\* the first n bytes of b, all of b when it has fewer (n a Python int)
Take(b, n) ==
    IF n.hi > 0 \/ n.lo >= Len(b) THEN b ELSE SubSeq(b, 1, n.lo)

\* a buffered reader: what has arrived is taken from the socket whole
Drop_whole_buffer(b, n) == <<>>

Drop(b, n) ==
    IF n.hi > 0 \/ n.lo >= Len(b) THEN <<>> ELSE SubSeq(b, n.lo + 1, Len(b))

\* the places read_varint is called from: lines 72, 74 and 76, and the
\* direct call
ReadPlaces == {"read_length", "read_id", "read_json_length", "read_direct"}

\* One pass of read_varint's loop (lines 103-112) with the recv(1) that
\* starts it; on `break` the caller goes on: line 72 feeds the value to
\* to_varint and drops it, line 74 drops it, line 76 keeps it.
read_varint ==
    /\ vpc \in ReadPlaces
    /\ RecvReady
    /\ \E pass \in {read_varint_pass(rv_value, rv_size, Take(rbuf, LongOfInt(1)))} :
       LET e    == IF pass.ends = "eof"
                   THEN "IOError: Unexpected end of stream while reading VarInt"
                   ELSE "IOError: VarInt is too big."
           done == [kind  |-> IF pass.ends = "break" THEN "value" ELSE e,
                    value |-> pass.value, size |-> pass.size]
       IN  /\ rbuf' = Drop(rbuf, LongOfInt(1))
           /\ recv_calls' = recv_calls + 1
           /\ starved' = (starved \/ wire # <<>>)
           /\ IF pass.ends = "loop"
              THEN /\ rv_value' = pass.value
                   /\ rv_size' = pass.size
                   /\ UNCHANGED <<rv_out, json_length>>
                   /\ Become(Stay(vpc))
              ELSE /\ rv_value' = LongZero
                   /\ rv_size' = 0
                   /\ rv_out' = done
                   /\ json_length' = IF vpc = "read_json_length" /\ pass.ends = "break"
                                     THEN pass.value ELSE json_length
                   /\ Become(CASE vpc = "read_direct" -> Stay("direct_done")
                               [] pass.ends # "break" -> Raise(e)
                               [] vpc = "read_length" -> Stay("read_id")
                               [] vpc = "read_id" -> Stay("read_json_length")
                               [] OTHER -> Stay("recv"))
    /\ UNCHANGED <<v_args, response, server_data, attempts>>
    /\ UNCHANGED <<peer, wire, peer_eof, sent>>
    /\ UNCHANGED <<scanVars, envVars, menuVars, mainVars, tvVars>>

\* a buffer of n bytes may be more than the process can allocate
MayNotAllocate(n) == n.hi > 0

\* lines 77-87: the one sock.recv(json_length), decode, json.loads and the
\* test of the two fields
RecvPayload ==
    /\ vpc = "recv"
    /\ RecvReady
    /\ \E got \in {Take(rbuf, json_length)} :
       \E dec \in {Utf8Decode(got)} :
       \E val \in {Loads(dec.text)} :
           /\ rbuf' = Drop(rbuf, json_length)
           /\ recv_calls' = recv_calls + 1
           /\ starved' = (starved \/ wire # <<>>)
           /\ response' = got
           /\ server_data' = IF dec.ok THEN val ELSE JFail
           /\ Become(IF ~dec.ok THEN Raise("UnicodeDecodeError")
                     ELSE IF ~val.ok THEN Raise("JSONDecodeError")
                     ELSE IF ~Iterable(val) THEN Raise("TypeError")
                     ELSE IF HasServerFields(val) THEN Return("True")
                     ELSE Return("False"))
    /\ UNCHANGED <<v_args, json_length, attempts>>
    /\ UNCHANGED <<peer, wire, peer_eof, sent>>
    /\ UNCHANGED <<scanVars, rvVars, envVars, menuVars, mainVars, tvVars>>

\* line 77: sock.recv(json_length) cannot allocate its buffer
RecvNoMemory ==
    /\ vpc = "recv"
    /\ MayNotAllocate(json_length)
    /\ Become(Raise("MemoryError"))
    /\ UNCHANGED <<v_args, json_length, response, server_data, attempts, recv_calls>>
    /\ UNCHANGED <<peer, wire, rbuf, peer_eof, sent, starved>>
    /\ UNCHANGED <<scanVars, rvVars, envVars, menuVars, mainVars, tvVars>>

\* the connection made without a timeout: a recv that finds nothing waits
RecvTimeout_never ==
    /\ vpc = "recv"
    /\ vpc = "returned"
    /\ UNCHANGED vars

\* a recv of the verifier finds nothing for the 5 seconds of line 63
RecvTimeout ==
    /\ vpc \in (ReadPlaces \ {"read_direct"}) \cup {"recv"}
    /\ ~RecvReady
    /\ Become(Raise("timeout"))
    /\ starved' = (starved \/ wire # <<>>)
    /\ UNCHANGED <<v_args, json_length, response, server_data, attempts, recv_calls>>
    /\ UNCHANGED <<peer, wire, rbuf, peer_eof, sent>>
    /\ UNCHANGED <<scanVars, rvVars, envVars, menuVars, mainVars, tvVars>>

-----------------------------------------------------------------------------
(* The peer's side of the connection                                       *)

\* the most bytes that wait unread in the connection's buffer
MaxBuffer == 7

\* the peer has what it answers to: it is eager, or both writes reached it
PeerMaySend == peer.eager \/ Len(sent) = 2

\* the next segment of the peer arrives
PeerSend ==
    /\ sock = "open"
    /\ PeerMaySend
    /\ IF peer.flood
       THEN /\ Len(rbuf) < MaxBuffer
            /\ rbuf' = Append(rbuf, 128)
            /\ UNCHANGED wire
       ELSE /\ wire # <<>>
            /\ rbuf' = rbuf \o Head(wire)
            /\ wire' = Tail(wire)
    /\ UNCHANGED <<sock, peer, peer_eof, sent, open_conns, starved>>
    /\ UNCHANGED <<scanVars, verifyVars, rvVars, envVars, menuVars, mainVars, tvVars>>

\* the peer's close arrives, after all it sent
PeerClose ==
    /\ sock = "open"
    /\ PeerMaySend
    /\ peer.closes
    /\ wire = <<>>
    /\ ~peer_eof
    /\ peer_eof' = TRUE
    /\ UNCHANGED <<sock, peer, wire, rbuf, sent, open_conns, starved>>
    /\ UNCHANGED <<scanVars, verifyVars, rvVars, envVars, menuVars, mainVars, tvVars>>

-----------------------------------------------------------------------------
(* find_minecraft_java_port                                                *)

\* the for loop of line 123 takes the next socket: lines 125-133, up to the
\* call of verify_minecraft_server or to the next iteration
ScanSocket ==
    /\ spc = "loop"
    /\ idx <= Len(table)
    /\ LET conn == table[idx]
       IN  IF conn.status # "LISTEN"
           THEN /\ idx' = idx + 1
                /\ UNCHANGED <<spc, lookups, skipped, probes>>
                /\ UNCHANGED <<verifyVars, rvVars, sock>>
           ELSE \E outcome \in LookupOutcomes :
                LET process == Processes[conn.pid]
                    raised  == \/ outcome.at \in {1, 2}
                               \/ outcome.at = 3 /\ NameMatches(process)
                IN  /\ lookups' = lookups + 1
                    /\ IF raised /\ ~ScanCatches(outcome.raises)
                       THEN /\ spc' = "raised"
                            /\ UNCHANGED <<idx, skipped, probes>>
                            /\ UNCHANGED <<verifyVars, rvVars, sock>>
                       ELSE IF raised
                       THEN /\ skipped' = skipped \cup {idx}
                            /\ idx' = idx + 1
                            /\ UNCHANGED <<spc, probes>>
                            /\ UNCHANGED <<verifyVars, rvVars, sock>>
                       ELSE IF ~NameMatches(process) \/ ~CmdlineMatches(process)
                       THEN /\ idx' = idx + 1
                            /\ UNCHANGED <<spc, skipped, probes>>
                            /\ UNCHANGED <<verifyVars, rvVars, sock>>
                       ELSE /\ spc' = "verifying"
                            /\ UNCHANGED skipped
                            /\ probes' = Append(probes, [ip_addr |-> Loopback,
                                                         port_number |-> conn.port,
                                                         idx |-> idx, ret |-> "pending"])
                            /\ Call(Loopback, conn.port)
                            /\ UNCHANGED idx
    /\ UNCHANGED <<table, mc_port>>
    /\ UNCHANGED <<peer, wire, rbuf, peer_eof, sent, open_conns, starved>>
    /\ UNCHANGED <<envVars, menuVars, mainVars, tvVars>>

\* line 133 written `is not None`: any result of the verifier counts
ScanVerified_any_result ==
    /\ spc = "verifying"
    /\ vpc = "returned"
    /\ mc_port' = <<table[idx].port>>
    /\ spc' = "returned"
    /\ vpc' = "none"
    /\ probes' = [probes EXCEPT ![Len(probes)].ret = v_ret]
    /\ UNCHANGED <<table, idx, lookups, skipped>>
    /\ UNCHANGED <<v_args, v_ret, exc, json_length, response, server_data,
                   attempts, recv_calls>>
    /\ UNCHANGED <<rvVars, netVars, envVars, menuVars, mainVars, tvVars>>

\* verify_minecraft_server has returned to line 133: return the port
\* (line 134) or go on with the next socket
ScanVerified ==
    /\ spc = "verifying"
    /\ vpc = "returned"
    /\ IF v_ret = "True"
       THEN /\ mc_port' = <<table[idx].port>>
            /\ spc' = "returned"
            /\ UNCHANGED idx
       ELSE IF v_ret = "False"
       THEN /\ idx' = idx + 1
            /\ spc' = "loop"
            /\ UNCHANGED mc_port
       ELSE /\ spc' = "raised"
            /\ UNCHANGED <<idx, mc_port>>
    /\ vpc' = "none"
    /\ probes' = [probes EXCEPT ![Len(probes)].ret = v_ret]
    /\ UNCHANGED <<table, lookups, skipped>>
    /\ UNCHANGED <<v_args, v_ret, exc, json_length, response, server_data,
                   attempts, recv_calls>>
    /\ UNCHANGED <<rvVars, netVars, envVars, menuVars, mainVars, tvVars>>

\* line 137 returning the default port of a Minecraft server
ScanExhausted_default_port ==
    /\ spc = "loop"
    /\ idx > Len(table)
    /\ spc' = "returned"
    /\ mc_port' = <<25565>>
    /\ UNCHANGED <<table, idx, lookups, skipped, probes>>
    /\ UNCHANGED <<verifyVars, rvVars, netVars, envVars, menuVars, mainVars, tvVars>>

\* line 137: the table is exhausted, return None
ScanExhausted ==
    /\ spc = "loop"
    /\ idx > Len(table)
    /\ spc' = "returned"
    /\ mc_port' = <<>>
    /\ UNCHANGED <<table, idx, lookups, skipped, probes>>
    /\ UNCHANGED <<verifyVars, rvVars, netVars, envVars, menuVars, mainVars, tvVars>>

-----------------------------------------------------------------------------
(* Direct calls of the codec and the packet builder                        *)

\* the run's entry: fn is the function called; n the integer encoded and
\* read back; ip_addr and port_number the arguments of the packet builder
\* or the verifier; stream the bytes read_varint is given
Entry(fn, n, ip_addr, port_number, stream) ==
    [fn |-> fn, n |-> n, ip_addr |-> ip_addr, port_number |-> port_number,
     stream |-> stream]

\* the most passes of to_varint's loop that are followed
MaxEmitted == 8

\* to_varint(n) is called: lines 11-13
EncodeDirect ==
    /\ vpc = "direct"
    /\ entry.fn = "to_varint"
    /\ tv_n' = entry.n
    /\ byte_array' = <<>>
    /\ vpc' = "to_varint"
    /\ UNCHANGED <<v_args, v_ret, exc, json_length, response, server_data,
                   attempts, recv_calls>>
    /\ UNCHANGED netVars
    /\ UNCHANGED <<scanVars, rvVars, envVars, menuVars, mainVars>>

\* one pass of to_varint's loop: lines 14-16
to_varint_loop ==
    /\ vpc = "to_varint"
    /\ LongAboveSevenBits(tv_n)
    /\ Len(byte_array) < MaxEmitted
    /\ byte_array' = Append(byte_array, BitOr(LongAnd7F(tv_n), 128))
    /\ tv_n' = LongShr7(tv_n)
    /\ UNCHANGED <<scanVars, verifyVars, rvVars, netVars, envVars, menuVars, mainVars>>

\* the loop is left: lines 17-18; the bytes returned are what read_varint
\* will read, one byte per recv
to_varint_return ==
    /\ vpc = "to_varint"
    /\ ~LongAboveSevenBits(tv_n)
    /\ byte_array' = Append(byte_array, tv_n.lo)
    /\ rbuf' = byte_array'
    /\ vpc' = "read_direct"
    /\ UNCHANGED tv_n
    /\ UNCHANGED <<v_args, v_ret, exc, json_length, response, server_data,
                   attempts, recv_calls>>
    /\ UNCHANGED <<sock, peer, wire, peer_eof, sent, open_conns, starved>>
    /\ UNCHANGED <<scanVars, rvVars, envVars, menuVars, mainVars>>

\* construct_handshake_packet(ip_addr, port_number) is computed and its
\* bytes are what read_varint will read
BuildDirect ==
    /\ vpc = "direct"
    /\ entry.fn = "construct_handshake_packet"
    /\ \E packet \in
              {construct_handshake_packet(entry.ip_addr, entry.port_number)} :
           /\ packet.ok
           /\ rbuf' = packet.bytes
           /\ sent' = <<packet.bytes>>
    /\ vpc' = "read_direct"
    /\ UNCHANGED <<v_args, v_ret, exc, json_length, response, server_data,
                   attempts, recv_calls>>
    /\ UNCHANGED <<sock, peer, wire, peer_eof, open_conns, starved>>
    /\ UNCHANGED <<scanVars, rvVars, envVars, menuVars, mainVars, tvVars>>

\* read_varint is given a stream of bytes that ends
StreamDirect ==
    /\ vpc = "direct"
    /\ entry.fn = "read_varint"
    /\ rbuf' = entry.stream
    /\ vpc' = "read_direct"
    /\ UNCHANGED <<v_args, v_ret, exc, json_length, response, server_data,
                   attempts, recv_calls>>
    /\ UNCHANGED <<sock, peer, wire, peer_eof, sent, open_conns, starved>>
    /\ UNCHANGED <<scanVars, rvVars, envVars, menuVars, mainVars, tvVars>>

-----------------------------------------------------------------------------
(* select_option (selector.py) and the main program                        *)

\* Python values that may be None: None, or the string of code points s
PyNone   == [kind |-> "None"]
PyStr(s) == [kind |-> "str", s |-> s]

\* "New...", "default", "ckpts\\"
NewEllipsis == <<78, 101, 119, 46, 46, 46>>
DefaultName == <<100, 101, 102, 97, 117, 108, 116>>
CkptPrefix  == <<99, 107, 112, 116, 115, 92>>

\* the longest option list select_option is called with on its own
MaxOptions == 5

\* the i-th option of those lists: "a", "bb", "ccc", ...
OptionName(i) == [j \in 1..i |-> 96 + i]

SampleOptionLists == { [i \in 1..k |-> OptionName(i)] : k \in 0..MaxOptions }

\* terminal widths: none reported, and room for one, two and many columns
SampleWidths == {0, 8, 16, 24, 80}

\* line 13: the longest option, padded
max_option_length(opts) ==
    (CHOOSE m \in {Len(opts[i]) : i \in DOMAIN opts} :
        \A i \in DOMAIN opts : Len(opts[i]) <= m) + 4

\* line 14
NumCols(opts, width) ==
    Let(width \div max_option_length(opts), LAMBDA q : IF q > 1 THEN q ELSE 1)

\* line 15
NumRows(opts, cols) == (Len(opts) + cols - 1) \div cols

\* lines 18-27: the grid drawn, rows and columns counted from 0; a cell
\* without an option holds ""
Grid(opts, cols, rows) ==
    [row \in 0..(rows - 1) |->
        [col \in 0..(cols - 1) |->
            IF col * rows + row < Len(opts) THEN opts[col * rows + row + 1]
            ELSE <<>>]]

\* lines 4-48: the call, up to the first wait for a key
select_option ==
    /\ mpc = "call"
    /\ IF options = <<>>
       THEN /\ mpc' = "returned"
            /\ m_ret' = PyNone
            /\ UNCHANGED <<num_cols, num_rows, current_row, current_col>>
       ELSE /\ \E cols \in {NumCols(options, term_width)} :
                 /\ num_cols' = cols
                 /\ num_rows' = NumRows(options, cols)
            /\ current_row' = 0
            /\ current_col' = 0
            /\ mpc' = "input"
            /\ UNCHANGED m_ret
    /\ UNCHANGED <<options, m_key, term_width>>
    /\ UNCHANGED <<scanVars, verifyVars, rvVars, netVars, envVars, tvVars, mainVars>>

\* what msvcrt.getch delivers for a key: Up, Down, Left, Right and Home
\* follow the prefix 224; Enter, Escape, the letter a
Keys ==
    { <<224, 72>>, <<224, 80>>, <<224, 75>>, <<224, 77>>, <<224, 71>>,
      <<13>>, <<27>>, <<97>> }

\* lines 83-86 without the test of line 84
MoveRight_unchecked(row, col) ==
    [row |-> row, col |-> col + 1]

\* lines 83-86: Right, under the test of line 83
MoveRight(row, col) ==
    IF (col + 1) * num_rows + row < Len(options)
    THEN [row |-> row, col |-> col + 1]
    ELSE [row |-> row, col |-> col]

\* lines 76-79: Down, under the test of line 76
MoveDown(row, col) ==
    IF col * num_rows + row + 1 < Len(options)
    THEN [row |-> row + 1, col |-> col]
    ELSE [row |-> row, col |-> col]

\* lines 71-86: the cursor after the key that followed the prefix 224
Arrow(k, row, col) ==
    IF k = 72 /\ row > 0 THEN [row |-> row - 1, col |-> col]
    ELSE IF k = 80 /\ row < num_rows - 1 THEN MoveDown(row, col)
    ELSE IF k = 75 /\ col > 0 THEN [row |-> row, col |-> col - 1]
    ELSE IF k = 77 /\ col < num_cols - 1 THEN MoveRight(row, col)
    ELSE [row |-> row, col |-> col]

\* line 97 returning the highlighted option
OnEscape_selects(cell) == PyStr(options[cell + 1])

\* lines 97-104: Escape
OnEscape(cell) == PyNone

\* lines 68-104: one key is read and handled
HandleInput ==
    /\ mpc = "input"
    /\ \E pressed \in Keys :
          /\ m_key' = pressed[Len(pressed)]
          /\ IF pressed[1] = 224
             THEN /\ \E c \in {Arrow(pressed[2], current_row, current_col)} :
                        /\ current_row' = c.row
                        /\ current_col' = c.col
                  /\ UNCHANGED <<mpc, m_ret>>
             ELSE IF pressed[1] = 13
             THEN \E cell \in {current_col * num_rows + current_row} :
                     IF cell < Len(options)
                     THEN /\ m_ret' = PyStr(options[cell + 1])
                          /\ mpc' = "returned"
                          /\ UNCHANGED <<current_row, current_col>>
                     ELSE UNCHANGED <<mpc, m_ret, current_row, current_col>>
             ELSE IF pressed[1] = 27
             THEN /\ m_ret' = OnEscape(current_col * num_rows + current_row)
                  /\ mpc' = "returned"
                  /\ UNCHANGED <<current_row, current_col>>
             ELSE UNCHANGED <<mpc, m_ret, current_row, current_col>>
    /\ UNCHANGED <<options, num_cols, num_rows, term_width>>
    /\ UNCHANGED <<scanVars, verifyVars, rvVars, netVars, envVars, tvVars, mainVars>>

\* the directory ckpts: whether it exists, and its entries
Missing      == [exists |-> FALSE, entries |-> <<>>]
Dir(entries) == [exists |-> TRUE, entries |-> entries]
DirEntry(name, isdir) == [name |-> name, isdir |-> isdir]

\* ckpts as the main program may find it: missing; empty; with the
\* directory "run1"; with the file "notes" and the directories "run1", "run2"
SampleCkpts ==
    { Missing, Dir(<<>>), Dir(<<DirEntry(<<114, 117, 110, 49>>, TRUE)>>),
      Dir(<<DirEntry(<<110, 111, 116, 101, 115>>, FALSE),
            DirEntry(<<114, 117, 110, 49>>, TRUE),
            DirEntry(<<114, 117, 110, 50>>, TRUE)>>) }

\* what the user types at input(): nothing, "run1", " my run ", "!!"
SampleInputs ==
    { <<>>, <<114, 117, 110, 49>>, <<32, 109, 121, 32, 114, 117, 110, 32>>,
      <<33, 33>> }

\* socket tables the main program's scan iterates
MainTables == SeqsUpTo(SampleSockets, 1)

\* no agent was constructed
NoAgent == [built |-> FALSE, mc_port |-> <<>>, resume |-> FALSE, ckpt_dir |-> <<>>]

\* str.isspace and str.isalnum on the code points of SampleInputs (ASCII)
IsSpace(c) == c \in {9, 10, 11, 12, 13, 32}
IsAlnum(c) == c \in (48..57) \cup (65..90) \cup (97..122)

RECURSIVE LStrip(_)
LStrip(t) == IF t # <<>> /\ IsSpace(Head(t)) THEN LStrip(Tail(t)) ELSE t

RECURSIVE RStrip(_)
RStrip(t) ==
    IF t # <<>> /\ IsSpace(t[Len(t)]) THEN RStrip(SubSeq(t, 1, Len(t) - 1)) ELSE t

\* str.strip
Strip(t) == RStrip(LStrip(t))

RECURSIVE Sanitize(_)
\* line 143: the characters kept
Sanitize(t) ==
    IF t = <<>> THEN <<>>
    ELSE IF IsAlnum(Head(t)) \/ Head(t) \in {45, 95}
         THEN <<Head(t)>> \o Sanitize(Tail(t))
         ELSE Sanitize(Tail(t))

\* lines 142-143: the name made of what was typed
sanitized_name(typed, default_prompt) ==
    Let(Strip(typed), LAMBDA name :
        RStrip(Sanitize(IF name # <<>> THEN name ELSE default_prompt)))

\* lines 171-189: the scan has returned; without a port the program exits
MainScanned ==
    /\ main_pc = "scan"
    /\ spc = "returned"
    /\ IF mc_port = <<>>
       THEN main_pc' = "exited"
       ELSE main_pc' = "checkpoint"
    /\ selected_checkpoint' = PyNone
    /\ resume' = FALSE
    /\ UNCHANGED <<voyager, main_exc, fs>>
    /\ UNCHANGED <<scanVars, verifyVars, rvVars, netVars, envVars, tvVars, menuVars>>

\* lines 191-202 and 207-208: ckpts is made and a name asked for, or its
\* directories are listed and offered with "New..."; the directory may be
\* gone when it is listed
MainCheckpoint ==
    /\ main_pc = "checkpoint"
    /\ IF ~fs.exists
       THEN /\ fs' = Dir(<<>>)
            /\ main_pc' = "input_default"
            /\ UNCHANGED <<options, mpc>>
       ELSE \E gone \in BOOLEAN :
               IF gone
               THEN /\ fs' = Missing
                    /\ main_pc' = "construct"
                    /\ UNCHANGED <<options, mpc>>
               ELSE /\ options' =
                          Append([i \in 1..Len(SelectSeq(fs.entries, LAMBDA e : e.isdir)) |->
                                     SelectSeq(fs.entries, LAMBDA e : e.isdir)[i].name],
                                 NewEllipsis)
                    /\ mpc' = "call"
                    /\ main_pc' = "select"
                    /\ UNCHANGED fs
    /\ UNCHANGED <<num_cols, num_rows, current_row, current_col, m_ret, m_key,
                   term_width>>
    /\ UNCHANGED <<selected_checkpoint, resume, voyager, main_exc>>
    /\ UNCHANGED <<scanVars, verifyVars, rvVars, netVars, envVars, tvVars>>

\* lines 202-206: select_option has returned
MainSelected ==
    /\ main_pc = "select"
    /\ mpc = "returned"
    /\ selected_checkpoint' = m_ret
    /\ IF m_ret = PyStr(NewEllipsis)
       THEN main_pc' = "input_new"
       ELSE main_pc' = "construct"
    /\ mpc' = "none"
    /\ UNCHANGED <<options, num_cols, num_rows, current_row, current_col, m_ret,
                   m_key, term_width>>
    /\ UNCHANGED <<resume, voyager, main_exc, fs>>
    /\ UNCHANGED <<scanVars, verifyVars, rvVars, netVars, envVars, tvVars>>

\* lines 139-146, called at line 193 or 205: a name is typed, the directory
\* is made; os.makedirs raises when the path exists
create_new_checkpoint ==
    /\ main_pc \in {"input_default", "input_new"}
    /\ \E typed \in SampleInputs :
       \E name \in {sanitized_name(typed, IF main_pc = "input_default"
                                          THEN DefaultName ELSE <<>>)} :
          IF name = <<>> \/ \E i \in DOMAIN fs.entries : fs.entries[i].name = name
          THEN /\ main_exc' = "FileExistsError"
               /\ main_pc' = "raised"
               /\ UNCHANGED <<selected_checkpoint, resume, fs>>
          ELSE /\ fs' = Dir(Append(fs.entries, DirEntry(name, TRUE)))
               /\ selected_checkpoint' = PyStr(name)
               /\ resume' = (main_pc = "input_default")
               /\ main_pc' = "construct"
               /\ UNCHANGED main_exc
    /\ UNCHANGED voyager
    /\ UNCHANGED <<scanVars, verifyVars, rvVars, netVars, envVars, tvVars, menuVars>>

\* lines 211-224: the agent's arguments are built, the agent is constructed
\* and started; str + None raises TypeError
MainConstruct ==
    /\ main_pc = "construct"
    /\ IF selected_checkpoint.kind # "str"
       THEN /\ main_exc' = "TypeError"
            /\ main_pc' = "raised"
            /\ UNCHANGED voyager
       ELSE /\ voyager' = [built |-> TRUE, mc_port |-> mc_port, resume |-> resume,
                           ckpt_dir |-> CkptPrefix \o selected_checkpoint.s]
            /\ main_pc' = "learning"
            /\ UNCHANGED main_exc
    /\ UNCHANGED <<selected_checkpoint, resume, fs>>
    /\ UNCHANGED <<scanVars, verifyVars, rvVars, netVars, envVars, tvVars, menuVars>>

-----------------------------------------------------------------------------
(* Inputs                                                                  *)

\* the integers encoded: around every power of two up to 2^32 - 1, the
\* protocol version and the default port
SampleInts ==
    UNION { {LongPred(LongPow2(k)), LongPow2(k), LongSucc(LongPow2(k))} : k \in 0..31 }
    \cup {LongPred(LongPow2(32)), LongOfInt(ProtocolVersion), LongOfInt(25565)}

\* the negative integers to_varint is given: -m is hi = -1, lo = 2^30 - m
SampleNegatives == { Long(-1, LongBase - m) : m \in {1, 127, 128, 129, 25565} }

\* the addresses the packet builder is given: two host names, and runs of
\* a one-, two-, three- or four-byte character around the lengths where the
\* length prefix grows
SampleAddresses ==
    {Loopback, Localhost}
    \cup { [i \in 1..n |-> c] : n \in {0, 1, 30, 31, 60, 61, 121, 122, 123},
                                c \in {97, 233, 8364, 128512} }

SamplePorts == {0, 255, 256, 25565, 65535}

\* the bytes the streams given to read_varint are made of
SampleBytes == {0, 127, 128, 255}

\* the longest stream given to read_varint
MaxStream == 6

\* the arguments the verifier is called with directly
VerifyArgs ==
    { [ip_addr |-> Loopback, port_number |-> 25565],
      [ip_addr |-> Localhost, port_number |-> 25565],
      [ip_addr |-> Loopback, port_number |-> 65536] }

\* the menu and the main program when the run is not about them
InitMenuIdle ==
    /\ options = <<>> /\ num_cols = 0 /\ num_rows = 0
    /\ current_row = 0 /\ current_col = 0 /\ m_ret = PyNone /\ m_key = 0

InitMainIdle ==
    /\ selected_checkpoint = PyNone /\ resume = FALSE
    /\ voyager = NoAgent /\ main_exc = "none"

InitStartupIdle ==
    /\ InitMenuIdle /\ mpc = "none" /\ term_width = 80
    /\ InitMainIdle /\ main_pc = "none" /\ fs = Missing

InitIdle ==
    /\ table = <<>> /\ idx = 1 /\ spc = "none" /\ mc_port = <<>>
    /\ lookups = 0 /\ skipped = {} /\ probes = <<>>
    /\ v_ret = "pending" /\ exc = "none" /\ json_length = LongZero
    /\ response = <<>> /\ server_data = JFail /\ attempts = 0 /\ recv_calls = 0
    /\ rv_value = LongZero /\ rv_size = 0 /\ rv_out = NoOutcome
    /\ sock = "None" /\ peer = NoPeer /\ wire = <<>> /\ rbuf = <<>>
    /\ sent = <<>> /\ open_conns = 0 /\ starved = FALSE
    /\ tv_n = LongZero /\ byte_array = <<>>
    /\ InitStartupIdle

\* the main program calls find_minecraft_java_port (line 171)
InitScan ==
    /\ entry = Entry("find_minecraft_java_port", LongZero, <<>>, 0, <<>>)
    /\ world = ScanWorld
    /\ table \in Tables
    /\ idx = 1 /\ spc = "loop" /\ mc_port = <<>> /\ lookups = 0
    /\ skipped = {} /\ probes = <<>>
    /\ vpc = "none" /\ v_args = [ip_addr |-> <<>>, port_number |-> 0]
    /\ v_ret = "pending" /\ exc = "none" /\ json_length = LongZero
    /\ response = <<>> /\ server_data = JFail /\ attempts = 0 /\ recv_calls = 0
    /\ rv_value = LongZero /\ rv_size = 0 /\ rv_out = NoOutcome
    /\ sock = "None" /\ peer = NoPeer /\ wire = <<>> /\ rbuf = <<>>
    /\ peer_eof = FALSE /\ sent = <<>> /\ open_conns = 0 /\ starved = FALSE
    /\ tv_n = LongZero /\ byte_array = <<>>
    /\ InitStartupIdle

\* verify_minecraft_server is called on a port behind which any peer sits
InitVerify ==
    /\ InitIdle
    /\ \E a \in VerifyArgs :
          /\ v_args = a
          /\ entry = Entry("verify_minecraft_server", LongZero, a.ip_addr,
                           a.port_number, <<>>)
    /\ \E p \in AllPeers : world = [q \in WorldPorts |-> p]
    /\ vpc = "connect"
    /\ peer_eof = FALSE

\* the codec and the packet builder are called on their own
InitDirect ==
    /\ InitIdle
    /\ entry \in { Entry("to_varint", n, <<>>, 0, <<>>) :
                      n \in SampleInts \cup SampleNegatives }
            \cup { Entry("construct_handshake_packet", LongZero, a, p, <<>>) :
                      a \in SampleAddresses, p \in SamplePorts }
            \cup { Entry("read_varint", LongZero, <<>>, 0, b) :
                      b \in SeqsUpTo(SampleBytes, MaxStream) }
    /\ world = [q \in WorldPorts |-> NoPeer]
    /\ v_args = [ip_addr |-> <<>>, port_number |-> 0]
    /\ vpc = "direct"
    /\ peer_eof = TRUE

\* select_option is called on its own
InitMenu ==
    /\ table = <<>> /\ idx = 1 /\ spc = "none" /\ mc_port = <<>>
    /\ lookups = 0 /\ skipped = {} /\ probes = <<>>
    /\ v_ret = "pending" /\ exc = "none" /\ json_length = LongZero
    /\ response = <<>> /\ server_data = JFail /\ attempts = 0 /\ recv_calls = 0
    /\ rv_value = LongZero /\ rv_size = 0 /\ rv_out = NoOutcome
    /\ sock = "None" /\ peer = NoPeer /\ wire = <<>> /\ rbuf = <<>>
    /\ sent = <<>> /\ open_conns = 0 /\ starved = FALSE
    /\ tv_n = LongZero /\ byte_array = <<>>
    /\ entry = Entry("select_option", LongZero, <<>>, 0, <<>>)
    /\ world = [q \in WorldPorts |-> NoPeer]
    /\ v_args = [ip_addr |-> <<>>, port_number |-> 0]
    /\ vpc = "none"
    /\ peer_eof = FALSE
    /\ options \in SampleOptionLists
    /\ term_width \in SampleWidths
    /\ num_cols = 0 /\ num_rows = 0 /\ current_row = 0 /\ current_col = 0
    /\ m_ret = PyNone /\ m_key = 0 /\ mpc = "call"
    /\ InitMainIdle /\ main_pc = "none" /\ fs = Missing

\* the program is started (lines 148-171)
InitMain ==
    /\ entry = Entry("__main__", LongZero, <<>>, 0, <<>>)
    /\ world = ScanWorld
    /\ table \in MainTables
    /\ idx = 1 /\ spc = "loop" /\ mc_port = <<>> /\ lookups = 0
    /\ skipped = {} /\ probes = <<>>
    /\ vpc = "none" /\ v_args = [ip_addr |-> <<>>, port_number |-> 0]
    /\ v_ret = "pending" /\ exc = "none" /\ json_length = LongZero
    /\ response = <<>> /\ server_data = JFail /\ attempts = 0 /\ recv_calls = 0
    /\ rv_value = LongZero /\ rv_size = 0 /\ rv_out = NoOutcome
    /\ sock = "None" /\ peer = NoPeer /\ wire = <<>> /\ rbuf = <<>>
    /\ peer_eof = FALSE /\ sent = <<>> /\ open_conns = 0 /\ starved = FALSE
    /\ tv_n = LongZero /\ byte_array = <<>>
    /\ InitMenuIdle /\ mpc = "none"
    /\ term_width \in SampleWidths
    /\ InitMainIdle /\ main_pc = "scan"
    /\ fs \in SampleCkpts

Init == InitScan \/ InitVerify \/ InitDirect \/ InitMenu \/ InitMain

\* the steps of the program
Program ==
    \/ ScanSocket
    \/ ScanVerified
    \/ ScanExhausted
    \/ Connect
    \/ SendHandshake
    \/ SendStatus
    \/ read_varint
    \/ RecvPayload
    \/ RecvNoMemory
    \/ RecvTimeout
    \/ EncodeDirect
    \/ to_varint_loop
    \/ to_varint_return
    \/ BuildDirect
    \/ StreamDirect
    \/ select_option
    \/ MainScanned
    \/ MainCheckpoint
    \/ MainSelected
    \/ MainConstruct

\* the steps of the peer and of the user at the keyboard
Environment ==
    \/ PeerSend
    \/ PeerClose
    \/ HandleInput
    \/ create_new_checkpoint

Next == Program \/ Environment

Spec == Init /\ [][Next]_vars

\* every blocking call of the program completes or times out, so a program
\* step that stays possible is taken
FairSpec == Spec /\ WF_vars(Program)

-----------------------------------------------------------------------------
(* Properties                                                              *)

\* C1 -- VarInt round trip: for the integers n of 0..2^32-1, read_varint
\* fed the bytes of to_varint(n), one byte per recv, returns exactly n.
C1_RoundTrip ==
    (entry.fn = "to_varint" /\ vpc = "direct_done")
        => /\ rv_out.kind = "value"
           /\ rv_out.value = entry.n
           /\ recv_calls = rv_out.size

\* a five-byte VarInt, the largest of the range, was read back
C1_Witness ==
    /\ entry.fn = "to_varint"
    /\ vpc = "direct_done"
    /\ entry.n = LongPred(LongPow2(32))
    /\ rv_out.size = 5
    /\ rv_out.kind = "value"

\* C2 -- VarInt bound: read_varint returns no value from more than 5 bytes;
\* when the first 5 bytes read all have the continuation bit and a 6th byte
\* is delivered, whatever its continuation bit, the call fails with
\* 'VarInt is too big', not with the end-of-stream error and not with a
\* value.
C2_Bound ==
    /\ rv_out.kind = "value" => rv_out.size <= 5
    /\ (/\ entry.fn = "read_varint"
        /\ vpc = "direct_done"
        /\ Len(entry.stream) >= 6
        /\ \A i \in 1..5 : entry.stream[i] >= 128)
            => rv_out.kind = "IOError: VarInt is too big."

\* five continuation bytes were followed by a byte without the bit
C2_Witness ==
    /\ entry.fn = "read_varint"
    /\ vpc = "direct_done"
    /\ Len(entry.stream) >= 6
    /\ \A i \in 1..5 : entry.stream[i] >= 128
    /\ entry.stream[6] < 128
    /\ rv_out.size = 6

\* C3 -- Handshake framing: for every address and every port of 0..65535
\* the VarInt at the start of the packet construct_handshake_packet returns
\* decodes to the number of bytes that follow it in the packet.
C3_Framing ==
    (entry.fn = "construct_handshake_packet" /\ vpc = "direct_done")
        => /\ rv_out.kind = "value"
           /\ rv_out.value = LongOfInt(Len(rbuf))
           /\ Len(sent[1]) = rv_out.size + Len(rbuf)

\* a packet whose length prefix takes two bytes was built and measured
C3_Witness ==
    /\ entry.fn = "construct_handshake_packet"
    /\ vpc = "direct_done"
    /\ rv_out.size = 2
    /\ Len(rbuf) >= 128
    /\ entry.port_number = 65535

\* C4 -- Write ordering: on an opened connection the whole handshake packet
\* is written first, then exactly the bytes 0x01 0x00, on that one
\* connection, and nothing is read before both writes are made.
C4_WriteOrder ==
    sock # "None"
        => /\ attempts = 1
           /\ Len(sent) <= 2
           /\ Len(sent) >= 1 =>
                 sent[1] = construct_handshake_packet(v_args.ip_addr,
                                                      v_args.port_number).bytes
           /\ Len(sent) = 2 => sent[2] = <<1, 0>>
           /\ recv_calls > 0 => Len(sent) = 2

\* the verifier has read from a connection it wrote both packets to
C4_Witness ==
    /\ entry.fn = "verify_minecraft_server"
    /\ sock = "open"
    /\ recv_calls > 0
    /\ Len(sent) = 2
    /\ rbuf # <<>>

\* C5 -- Verify decision: once the payload is read and parsed, the result
\* is true exactly when the parsed value is an object with both a
\* `description` and a `players` field; any other parsed value gives false.
C5_Decision ==
    (vpc = "returned" /\ server_data.ok)
        => (v_ret = "True" <=> /\ server_data.t = "obj"
                               /\ DescriptionKey \in server_data.keys
                               /\ PlayersKey \in server_data.keys)

\* the status responses C6 is about: a correctly framed object with both
\* fields, under every packet id and every cut into segments
GoodFramedSegs ==
    UNION { Segmentations(FrameHeader(id, Utf8Encode(t).bytes,
                                      LongOfInt(Len(Utf8Encode(t).bytes))),
                          Utf8Encode(t).bytes) :
               id \in PacketIds, t \in GoodTexts }

\* C6 -- Verifier success: when the peer accepts and answers the request
\* with a correctly framed status response whose payload is an object with
\* both fields, and the response has all arrived when it is read, the
\* verifier returns true, for every such payload and packet id.
C6_Success ==
    (/\ vpc = "returned"
     /\ peer.listen = "accept"
     /\ peer.reset_at = 0
     /\ peer.segs \in GoodFramedSegs
     /\ ~starved)
        => v_ret = "True"

\* a response sent in several segments, with a payload that holds a
\* two-byte character, was all there when read and was accepted
C6_Witness ==
    /\ vpc = "returned"
    /\ peer.listen = "accept"
    /\ peer.segs \in GoodFramedSegs
    /\ Len(peer.segs) > 2
    /\ ~starved
    /\ response = Utf8Encode(TextAccent).bytes
    /\ v_ret = "True"

\* C7 -- Scoped connection: an invocation of the verifier makes exactly one
\* connection attempt, no connection it opened is open when it returns,
\* however it returns, and at most one verification connection is open at
\* any time of a scan.
C7_Scoped ==
    /\ attempts <= 1
    /\ open_conns <= 1
    /\ open_conns = 1 <=> sock = "open"
    /\ vpc = "returned" => attempts = 1
    /\ vpc \in {"returned", "none"} => (sock # "open" /\ open_conns = 0)

\* the second invocation of a scan has returned from a failure with its
\* connection closed
C7_Witness ==
    /\ spc = "verifying"
    /\ vpc = "returned"
    /\ Len(probes) = 2
    /\ exc # "none"
    /\ sock = "closed"
    /\ open_conns = 0

\* C8 -- Failure folding: the verifier never lets an error out; a
\* connection failure, a failure to build or send, a stream closed during
\* a VarInt, a malformed VarInt, an undecodable or truncated payload and a
\* JSON parse failure each make it return false.
C8_Folding ==
    vpc = "returned"
        => /\ v_ret \in {"True", "False"}
           /\ exc # "none" => v_ret = "False"
           /\ LongLess(LongOfInt(Len(response)), json_length) => v_ret = "False"

\* C9 -- No hang: every invocation of the verifier returns in the end,
\* whatever the peer does, given that every blocking call completes or
\* times out; with no listener it returns false; and so the scan of a
\* finite socket table returns in the end.
C9_NoHang ==
    /\ (vpc = "connect") ~> (vpc = "returned")
    /\ (spc = "loop") ~> (spc = "returned")
    /\ []((vpc = "returned" /\ peer.listen # "accept") => v_ret = "False")

\* a scan's invocation returned from a peer that accepted and stayed silent
C9_Witness ==
    /\ spc = "verifying"
    /\ vpc = "returned"
    /\ peer.listen = "accept"
    /\ peer.segs = <<>>
    /\ ~peer.closes
    /\ ~peer.flood
    /\ exc = "timeout"
    /\ v_ret = "False"

\* what C10 says of the state the scan returns a port in
C10_Returned ==
    (spc = "returned" /\ mc_port # <<>>)
        => LET k == Len(probes)
           IN  /\ k >= 1
               /\ probes[k].ret = "True"
               /\ probes[k].idx = idx
               /\ mc_port = <<table[idx].port>>
               /\ probes[k].port_number = table[idx].port
               /\ \A j \in 1..(k - 1) : /\ probes[j].ret = "False"
                                        /\ probes[j].idx < probes[j + 1].idx

\* C10 -- Scanner short-circuit: the scan returns the port of the first
\* candidate, in the table's order, whose verification succeeds, and from
\* then on looks up no process and makes no verification attempt.
C10_ShortCircuit ==
    /\ []C10_Returned
    /\ [][spc = "returned" => /\ lookups' = lookups
                              /\ probes' = probes
                              /\ attempts' = attempts
                              /\ recv_calls' = recv_calls
                              /\ idx' = idx]_vars

\* of three candidates the second was verified and returned, and the
\* third, a status server's socket, was not looked at
C10_Witness ==
    /\ spc = "returned"
    /\ Len(table) = 3
    /\ idx = 2
    /\ mc_port = <<25565>>
    /\ Len(probes) = 2
    /\ lookups = 2
    /\ table[3] = Conn("LISTEN", 100, 25565)

\* the places of table that hold a candidate: a listening socket whose
\* process has 'java' in its lowered name and 'minecraft' in a lowered
\* argument
Candidates ==
    { i \in 1..Len(table) :
        /\ table[i].status = "LISTEN"
        /\ Contains(<<106, 97, 118, 97>>, Lower(Processes[table[i].pid].name))
        /\ \E k \in DOMAIN Processes[table[i].pid].cmdline :
              Contains(<<109, 105, 110, 101, 99, 114, 97, 102, 116>>,
                       Lower(Processes[table[i].pid].cmdline[k])) }

\* C11 -- Scan result soundness and completeness: a port the scan returns
\* is the port of a listening socket whose process passed the filter and
\* whose verification returned true in this scan; the scan returns None
\* exactly when no socket of the table is such a one (every candidate whose
\* process was resolved was verified and gave false), the empty table
\* included.
C11_ScanResult ==
    spc = "returned"
        => LET verified == {j \in DOMAIN probes : probes[j].ret = "True"}
           IN  /\ mc_port # <<>> =>
                     \E j \in verified : /\ probes[j].idx \in Candidates
                                         /\ table[probes[j].idx].port = mc_port[1]
                                         /\ probes[j].port_number = mc_port[1]
               /\ mc_port = <<>> <=> verified = {}
               /\ mc_port = <<>> =>
                     \A i \in Candidates \ skipped :
                        \E j \in DOMAIN probes : /\ probes[j].idx = i
                                                 /\ probes[j].ret = "False"
               /\ table = <<>> => mc_port = <<>>

\* a scan of a table with candidates returned None: each of them was
\* verified and gave false
C11_Witness ==
    /\ spc = "returned"
    /\ mc_port = <<>>
    /\ skipped = {}
    /\ Cardinality(Candidates) = 2
    /\ Len(probes) = 2
    /\ Len(table) = 3

\* C12 -- Per-candidate skip: when resolving the process of a listening
\* socket raises NoSuchProcess or AccessDenied (at the lookup, the name or
\* the command line), that socket alone is skipped: it is not verified, the
\* scan does not fail, and every later socket is examined, so a later
\* candidate is still verified.
C12_Skip ==
    /\ spc # "raised"
    /\ \A i \in skipped : /\ i < idx
                          /\ table[i].status = "LISTEN"
                          /\ \A j \in DOMAIN probes : probes[j].idx # i
    /\ \A i \in Candidates \ skipped :
          i < idx => \E j \in DOMAIN probes : probes[j].idx = i
    /\ (spc = "returned" /\ mc_port = <<>>) => idx = Len(table) + 1

\* two sockets were skipped and the third, a status server's, was returned
C12_Witness ==
    /\ spc = "returned"
    /\ skipped = {1, 2}
    /\ 1 \in Candidates
    /\ idx = 3
    /\ mc_port = <<25565>>
    /\ Len(probes) = 1

\* C13 -- Filter before probe: in a scan every call of the verifier, and so
\* every connection attempt, is to 127.0.0.1 and to the port of a socket
\* that is listening and whose process has 'java' in its name and
\* 'minecraft' in an argument, case-insensitively; no other socket is
\* probed.
C13_Filter ==
    /\ \A j \in DOMAIN probes :
          /\ probes[j].ip_addr = <<49, 50, 55, 46, 48, 46, 48, 46, 49>>
          /\ probes[j].idx \in Candidates
          /\ probes[j].port_number = table[probes[j].idx].port
    /\ (entry.fn = "find_minecraft_java_port" /\ (attempts > 0 \/ vpc # "none"))
          => /\ probes # <<>>
             /\ v_args.ip_addr = probes[Len(probes)].ip_addr
             /\ v_args.port_number = probes[Len(probes)].port_number
    /\ (entry.fn = "find_minecraft_java_port" /\ sock = "open") => spc = "verifying"

\* a java process that is no Minecraft server and a Minecraft script that is
\* no java process were passed over, and JAVA.EXE's socket is connected to
C13_Witness ==
    /\ Len(table) = 3
    /\ table[1] = Conn("LISTEN", 300, 8081)
    /\ table[2] = Conn("LISTEN", 200, 8080)
    /\ table[3] = Conn("LISTEN", 101, 25566)
    /\ skipped = {}
    /\ Len(probes) = 1
    /\ sock = "open"

\* C14 -- ReadExact for the payload: once the payload length n is read,
\* the bytes handed to the decoder and the parser are exactly n bytes,
\* however the transport splits them; fewer than n bytes are never parsed
\* (a stream closed before n bytes is a failure, not a parse).
C14_ReadExact ==
    (vpc = "returned" /\ exc \in {"none", "UnicodeDecodeError", "JSONDecodeError",
                                  "TypeError"})
        => LongOfInt(Len(response)) = json_length

\* C15 -- Encode on negative input: to_varint called with a negative n
\* rejects it: it makes no pass through its loop, so it emits no byte, and
\* it returns no byte sequence.
C15_EncodeEnds ==
    (entry.fn = "to_varint" /\ entry.n.hi < 0)
       => /\ byte_array = <<>>
          /\ vpc \notin {"read_direct", "direct_done"}

\* C16 -- read_varint consumes exactly the VarInt: a call that returns a
\* value made one recv(1) per byte, stopped at the first byte without the
\* continuation bit and left every later byte unread; a recv that yields
\* nothing before such a byte is seen ends the call with the end-of-stream
\* error; and so in the verifier the three calls leave the stream at the
\* first byte of the payload, with the payload's length in json_length.
C16_Consumes ==
    /\ (entry.fn = "read_varint" /\ vpc = "direct_done")
          => LET stream == entry.stream
                 k      == rv_out.size
             IN  /\ rv_out.kind = "value" =>
                       /\ recv_calls = k
                       /\ stream[k] < 128
                       /\ \A i \in 1..(k - 1) : stream[i] >= 128
                       /\ rbuf = SubSeq(stream, k + 1, Len(stream))
                 /\ rv_out.kind = "IOError: Unexpected end of stream while reading VarInt"
                       <=> (Len(stream) <= 5 /\ \A i \in DOMAIN stream : stream[i] >= 128)
                 /\ rv_out.kind = "IOError: Unexpected end of stream while reading VarInt"
                       => (recv_calls = Len(stream) + 1 /\ rbuf = <<>>)
    /\ vpc = "recv"
          => \A id \in PacketIds, t \in GoodTexts \cup OtherTexts :
                LET payload == Utf8Encode(t).bytes
                    header  == FrameHeader(id, payload, LongOfInt(Len(payload)))
                IN  peer.segs \in Segmentations(header, payload)
                       => /\ recv_calls = Len(header)
                          /\ json_length = LongOfInt(Len(payload))
                          /\ rbuf = SubSeq(payload, 1, Len(rbuf))

\* a two-byte VarInt was read from a longer stream and the rest is unread
C16_Witness ==
    /\ entry.fn = "read_varint"
    /\ vpc = "direct_done"
    /\ rv_out.kind = "value"
    /\ rv_out.size = 2
    /\ Len(entry.stream) = 5
    /\ Len(rbuf) = 3

\* C17 -- Decoded range: every value read_varint returns is a non-negative
\* integer of at most 2^32 - 1, five-byte sequences included, and so the
\* payload length handed to recv is never more than 2^32 - 1.
C17_Range ==
    /\ rv_out.kind = "value" => LongLess(rv_out.value, LongPow2(32))
    /\ LongLess(json_length, LongPow2(32))

\* C18 -- Menu cursor invariant: in select_option with options, whatever
\* the number of columns and whatever keys were pressed, the cursor is on
\* the grid (0 <= current_row < num_rows, 0 <= current_col < num_cols) and
\* on an option (current_col * num_rows + current_row < len(options)): the
\* highlighted cell of the grid holds that option.
C18_Cursor ==
    (options # <<>> /\ mpc \in {"input", "returned"})
       => /\ num_cols >= 1
          /\ 0 <= current_row /\ current_row < num_rows
          /\ 0 <= current_col /\ current_col < num_cols
          /\ current_col * num_rows + current_row < Len(options)
          /\ Grid(options, num_cols, num_rows)[current_row][current_col]
                = options[current_col * num_rows + current_row + 1]

\* the cursor was moved down a column next to a shorter one: Right is
\* refused by the test of line 84 alone
C18_Witness ==
    /\ mpc = "input"
    /\ current_row > 0
    /\ current_col < num_cols - 1
    /\ (current_col + 1) * num_rows + current_row >= Len(options)
    /\ m_key = 77

\* the cells the arrow keys lead to from the cells of S
RECURSIVE ArrowClosure(_)
ArrowClosure(S) ==
    LET T == S \cup {Arrow(k, c.row, c.col) : k \in {72, 80, 75, 77}, c \in S}
    IN  IF T = S THEN S ELSE ArrowClosure(T)

\* C19 -- Menu outcomes: select_option returns None for an empty list and
\* on Escape; on Enter it returns the option at current_col * num_rows +
\* current_row; nothing else makes it return; and every option can be
\* reached from (0,0) with the arrow keys.
C19_Outcomes ==
    /\ (mpc = "returned" /\ options = <<>>) => m_ret = PyNone
    /\ (mpc = "returned" /\ options # <<>>)
          => /\ m_key \in {13, 27}
             /\ m_key = 27 => m_ret = PyNone
             /\ m_key = 13 => m_ret = PyStr(options[current_col * num_rows + current_row + 1])
    /\ mpc = "input"
          => { c.col * num_rows + c.row : c \in ArrowClosure({[row |-> 0, col |-> 0]}) }
                = 0..(Len(options) - 1)

\* the last of five options, in the second of two columns, was chosen
C19_Witness ==
    /\ mpc = "returned"
    /\ m_key = 13
    /\ Len(options) = 5
    /\ num_cols = 2
    /\ current_col = 1 /\ current_row = 1
    /\ m_ret = PyStr(options[5])

\* C20 -- Startup ordering: the agent is constructed and started only after
\* the scan returned a port (without one the program ends and no agent is
\* constructed) and only with a checkpoint name that is a string; on every
\* path through the checkpoint selection that finds or makes the directory
\* (directory missing, a checkpoint chosen, "New..." chosen, the menu left
\* with Escape) selected_checkpoint is not None when ckpt_dir is built.
C20_Startup ==
    /\ voyager.built => (mc_port # <<>> /\ selected_checkpoint.kind = "str")
    /\ main_pc = "exited" => (mc_port = <<>> /\ ~voyager.built)
    /\ (mc_port = <<>> /\ spc = "returned") => ~voyager.built
    /\ (main_pc = "construct" /\ fs.exists) => selected_checkpoint # PyNone

=============================================================================
